---- MODULE Spec2Model ----
(***************************************************************************)
(* fidl JSON generator: system/host/fidl/lib/json_generator.cpp.           *)
(*                                                                         *)
(* json_file_ is the byte stream, kept as a sequence of strings whose      *)
(* concatenation is the stream.  Every byte of a caller supplied text (a   *)
(* name, an identifier, the source text of a literal) is one element; a    *)
(* string constant of the source (a key, a kind name, kIndent) is one      *)
(* element, and it holds none of the bytes '"', '\', newline or tab.       *)
(*                                                                         *)
(* The C++ call stack is the variable stack, head = innermost activation.  *)
(***************************************************************************)
EXTENDS Integers, Sequences, FiniteSets, TLC

VARIABLES library_, indent_level_, json_file_, json_file_out, stack, pc

vars == <<library_, indent_level_, json_file_, json_file_out, stack, pc>>

(* ------------------------------ bounds -------------------------------- *)
MaxDecls == 2        \* declarations of a library built from the plain pool
MaxRuns == 2         \* calls of ProduceJSON on one generator
MaxInitIndent == 2   \* values indent_level_ may hold before the first call

(* ------------------------------ bytes --------------------------------- *)
kIndent == "  "

Quote == "\""
Backslash == "\\"
Tab == "\t"
Newline == "\n"

(* --------------------------- name tables ------------------------------ *)
PrimitiveSubtypeName(subtype) ==
    CASE subtype = "Int8" -> "int8"
      [] subtype = "Int16" -> "int16"
      [] subtype = "Int32" -> "int32"
      [] subtype = "Int64" -> "int64"
      [] subtype = "Uint8" -> "uint8"
      [] subtype = "Uint16" -> "uint16"
      [] subtype = "Uint32" -> "uint32"
      [] subtype = "Uint64" -> "uint64"
      [] subtype = "Bool" -> "bool"
      [] subtype = "Status" -> "status"
      [] subtype = "Float32" -> "float32"
      [] subtype = "Float64" -> "float64"

HandleSubtypeName(subtype) ==
    CASE subtype = "Handle" -> "handle"
      [] subtype = "Process" -> "process"
      [] subtype = "Thread" -> "thread"
      [] subtype = "Vmo" -> "vmo"
      [] subtype = "Channel" -> "channel"
      [] subtype = "Event" -> "event"
      [] subtype = "Port" -> "port"
      [] subtype = "Interrupt" -> "interrupt"
      [] subtype = "Iomap" -> "iomap"
      [] subtype = "Pci" -> "pci"
      [] subtype = "Log" -> "log"
      [] subtype = "Socket" -> "socket"
      [] subtype = "Resource" -> "resource"
      [] subtype = "Eventpair" -> "eventpair"
      [] subtype = "Job" -> "job"
      [] subtype = "Vmar" -> "vmar"
      [] subtype = "Fifo" -> "fifo"
      [] subtype = "Hypervisor" -> "hypervisor"
      [] subtype = "Guest" -> "guest"
      [] subtype = "Timer" -> "timer"

LiteralKindName(kind) ==
    CASE kind = "String" -> "string"
      [] kind = "Numeric" -> "numeric"
      [] kind = "True" -> "true"
      [] kind = "False" -> "false"
      [] kind = "Default" -> "default"

TypeKindName(kind) ==
    CASE kind = "Array" -> "array"
      [] kind = "Vector" -> "vector"
      [] kind = "String" -> "string"
      [] kind = "Handle" -> "handle"
      [] kind = "Request" -> "request"
      [] kind = "Primitive" -> "primitive"
      [] kind = "Identifier" -> "identifier"

ConstantKindName(kind) ==
    CASE kind = "Identifier" -> "identifier"
      [] kind = "Literal" -> "literal"

(* ------------------------------ emitters ------------------------------ *)
EmitBoolean(file, value) == file \o (IF value THEN <<"true">> ELSE <<"false">>)

RECURSIVE Escape(_)
Escape(value) ==
    IF value = <<>> THEN <<>>
    ELSE LET c == Head(value)
         IN (CASE c = Quote -> <<Backslash, Quote>>
               [] c = Backslash -> <<Backslash, Backslash>>
               [] OTHER -> <<c>>) \o Escape(Tail(value))

EmitString(file, value) == file \o <<Quote>> \o Escape(value) \o <<Quote>>

(* the literal text sent through the escaping emitter *)
EmitLiteral_Escaping(file, value) == EmitString(file, value)

EmitLiteral(file, value) == file \o value

EmitUint32(file, value) == file \o <<ToString(value)>>

EmitUint64(file, value) == file \o <<ToString(value)>>

EmitNewline(file) == file \o <<Newline>>

(* the loop counting with --indent_level: one unit short *)
EmitNewlineAndIndent_OneShort(file, indent_level) ==
    file \o <<Newline>> \o [i \in 1..indent_level - 1 |-> kIndent]

EmitNewlineAndIndent(file, indent_level) ==
    file \o <<Newline>> \o [i \in 1..indent_level |-> kIndent]

EmitObjectBegin(file) == file \o <<"{">>

EmitObjectSeparator(file, indent_level) ==
    EmitNewlineAndIndent(file \o <<",">>, indent_level)

EmitObjectEnd(file) == file \o <<"}">>

EmitObjectKey(file, indent_level, key) == EmitString(file, key) \o <<": ">>

EmitArrayBegin(file) == file \o <<"[">>

EmitArraySeparator(file, indent_level) ==
    EmitNewlineAndIndent(file \o <<",">>, indent_level)

EmitArrayEnd(file) == file \o <<"]">>

(* ------------------------------- values ------------------------------- *)
(* A value is a record; t is its C++ static type, which selects the       *)
(* Generate overload.  A std::unique_ptr is the value it owns, or nullptr. *)
nullptr == [t |-> "nullptr"]

StringView(data) == [t |-> "StringView", data |-> data]

Bool(value) == [t |-> "bool", value |-> value]

Uint64(value) == [t |-> "uint64_t", value |-> value]

Ordinal(value) == [t |-> "Ordinal", value |-> value]

HandleSubtype(value) == [t |-> "HandleSubtype", value |-> value]

Nullability(value) == [t |-> "Nullability", value |-> value]

PrimitiveSubtype(value) == [t |-> "PrimitiveSubtype", value |-> value]

Identifier(location) == [t |-> "Identifier", location |-> location]

CompoundIdentifier(components) ==
    [t |-> "CompoundIdentifier", components |-> components]

Vector(elements) == [t |-> "vector", elements |-> elements]

Name(location) == [t |-> "Name", location |-> location]

LongName(name) == name.location

StringLiteral(location) ==
    [t |-> "Literal", kind |-> "String", location |-> location]

NumericLiteral(location) ==
    [t |-> "Literal", kind |-> "Numeric", location |-> location]

TrueLiteral == [t |-> "Literal", kind |-> "True"]

FalseLiteral == [t |-> "Literal", kind |-> "False"]

DefaultLiteral == [t |-> "Literal", kind |-> "Default"]

IdentifierConstant(identifier) ==
    [t |-> "Constant", kind |-> "Identifier", identifier |-> identifier]

LiteralConstant(literal) ==
    [t |-> "Constant", kind |-> "Literal", literal |-> literal]

ArrayType(element_type, element_count) ==
    [t |-> "Type", kind |-> "Array", element_type |-> element_type,
     element_count |-> element_count]

VectorType(element_type, maybe_element_count, nullability) ==
    [t |-> "Type", kind |-> "Vector", element_type |-> element_type,
     maybe_element_count |-> maybe_element_count,
     nullability |-> Nullability(nullability)]

StringType(maybe_element_count, nullability) ==
    [t |-> "Type", kind |-> "String",
     maybe_element_count |-> maybe_element_count,
     nullability |-> Nullability(nullability)]

HandleType(subtype, nullability) ==
    [t |-> "Type", kind |-> "Handle", subtype |-> HandleSubtype(subtype),
     nullability |-> Nullability(nullability)]

RequestType(subtype, nullability) ==
    [t |-> "Type", kind |-> "Request", subtype |-> subtype,
     nullability |-> Nullability(nullability)]

PrimitiveType(subtype) ==
    [t |-> "Type", kind |-> "Primitive", subtype |-> PrimitiveSubtype(subtype)]

IdentifierType(identifier, nullability) ==
    [t |-> "Type", kind |-> "Identifier", identifier |-> identifier,
     nullability |-> Nullability(nullability)]

Const(name, type, value) ==
    [t |-> "Const", name |-> Name(name), type |-> type, value |-> value]

EnumMember(name, value) ==
    [t |-> "Enum::Member", name |-> Identifier(name), value |-> value]

Enum(name, type, members) ==
    [t |-> "Enum", name |-> Name(name), type |-> type,
     members |-> Vector(members)]

Parameter(type, name, offset) ==
    [t |-> "Parameter", type |-> type, name |-> Identifier(name),
     offset |-> Uint64(offset)]

Method(ordinal, name, has_request, maybe_request, maybe_request_size, has_response, maybe_response, maybe_response_size) ==
    [t |-> "Method", ordinal |-> Ordinal(ordinal), name |-> Identifier(name),
     has_request |-> has_request, maybe_request |-> Vector(maybe_request),
     maybe_request_size |-> Uint64(maybe_request_size),
     has_response |-> has_response, maybe_response |-> Vector(maybe_response),
     maybe_response_size |-> Uint64(maybe_response_size)]

Interface(name, methods) ==
    [t |-> "Interface", name |-> Name(name), methods |-> Vector(methods)]

StructMember(type, name, maybe_default_value, offset) ==
    [t |-> "Struct::Member", type |-> type, name |-> Identifier(name),
     maybe_default_value |-> maybe_default_value, offset |-> Uint64(offset)]

Struct(name, members, size) ==
    [t |-> "Struct", name |-> Name(name), members |-> Vector(members),
     size |-> Uint64(size)]

UnionMember(type, name, offset) ==
    [t |-> "Union::Member", type |-> type, name |-> Identifier(name),
     offset |-> Uint64(offset)]

Union(name, members, size) ==
    [t |-> "Union", name |-> Name(name), members |-> Vector(members),
     size |-> Uint64(size)]

Library(library_name, consts, enums, interfaces, structs, unions, order) ==
    [t |-> "Library", library_name_ |-> StringView(library_name),
     const_declarations_ |-> consts, enum_declarations_ |-> enums,
     interface_declarations_ |-> interfaces, struct_declarations_ |-> structs,
     union_declarations_ |-> unions, declaration_order_ |-> order]

(* --------------------- statements of a callback ----------------------- *)
(* The body a Generate overload hands to GenerateObject is the sequence   *)
(* of calls it makes for the value, in order.                             *)
First == "First"
Subsequent == "Subsequent"

Member(key, value, position) ==
    [s |-> "GenerateObjectMember", key |-> key, value |-> value,
     position |-> position]

LiteralValue(value) == [s |-> "EmitLiteral", key |-> "value", value |-> value]

DeclarationMap(library) ==
    [s |-> "declarations", key |-> "declarations",
     value |-> [t |-> "declarations", library |-> library]]

MapEntry(count, name, decl) ==
    [s |-> "GenerateDeclarationMapEntry", count |-> count, name |-> name,
     decl |-> decl]

(* the Numeric case written like the String case *)
GenerateLiteral_NumericRaw(value) ==
    <<Member("kind", StringView(<<LiteralKindName(value.kind)>>), First)>> \o
    (CASE value.kind = "String" -> <<LiteralValue(value.location)>>
       [] value.kind = "Numeric" -> <<LiteralValue(value.location)>>
       [] value.kind = "True" -> <<>>
       [] value.kind = "False" -> <<>>
       [] value.kind = "Default" -> <<>>)

GenerateLiteral(value) ==
    <<Member("kind", StringView(<<LiteralKindName(value.kind)>>), First)>> \o
    (CASE value.kind = "String" -> <<LiteralValue(value.location)>>
       [] value.kind = "Numeric" ->
            <<Member("value", StringView(value.location), Subsequent)>>
       [] value.kind = "True" -> <<>>
       [] value.kind = "False" -> <<>>
       [] value.kind = "Default" -> <<>>)

GenerateType(value) ==
    <<Member("kind", StringView(<<TypeKindName(value.kind)>>), First)>> \o
    (CASE value.kind = "Array" ->
            <<Member("element_type", value.element_type, Subsequent),
              Member("element_count", value.element_count, Subsequent)>>
       [] value.kind = "Vector" ->
            <<Member("element_type", value.element_type, Subsequent)>> \o
            (IF value.maybe_element_count # nullptr
             THEN <<Member("maybe_element_count", value.maybe_element_count,
                           Subsequent)>>
             ELSE <<>>) \o
            <<Member("nullable", value.nullability, Subsequent)>>
       [] value.kind = "String" ->
            (IF value.maybe_element_count # nullptr
             THEN <<Member("maybe_element_count", value.maybe_element_count,
                           Subsequent)>>
             ELSE <<>>) \o
            <<Member("nullable", value.nullability, Subsequent)>>
       [] value.kind = "Handle" ->
            <<Member("subtype", value.subtype, Subsequent),
              Member("nullable", value.nullability, Subsequent)>>
       [] value.kind = "Request" ->
            <<Member("subtype", value.subtype, Subsequent),
              Member("nullable", value.nullability, Subsequent)>>
       [] value.kind = "Primitive" ->
            <<Member("subtype", value.subtype, Subsequent)>>
       [] value.kind = "Identifier" ->
            <<Member("identifier", value.identifier, Subsequent),
              Member("nullable", value.nullability, Subsequent)>>)

GenerateConstant(value) ==
    <<Member("kind", StringView(<<ConstantKindName(value.kind)>>), First)>> \o
    (CASE value.kind = "Identifier" ->
            <<Member("identifier", value.identifier, Subsequent)>>
       [] value.kind = "Literal" ->
            <<Member("literal", value.literal, Subsequent)>>)

GenerateConst(value) ==
    <<Member("name", value.name, First),
      Member("type", value.type, Subsequent),
      Member("value", value.value, Subsequent)>>

GenerateEnum(value) ==
    <<Member("name", value.name, First)>> \o
    (IF value.type.kind = "Primitive"
     THEN <<Member("type", value.type.subtype, Subsequent)>>
     ELSE <<>>) \o
    <<Member("members", value.members, Subsequent)>>

GenerateEnumMember(value) ==
    <<Member("name", value.name, First),
      Member("value", value.value, Subsequent)>>

GenerateInterface(value) ==
    <<Member("name", value.name, First),
      Member("methods", value.methods, Subsequent)>>

GenerateMethod(value) ==
    <<Member("ordinal", value.ordinal, First),
      Member("name", value.name, Subsequent),
      Member("has_request", Bool(value.has_request), Subsequent)>> \o
    (IF value.has_request
     THEN <<Member("maybe_request", value.maybe_request, Subsequent),
            Member("maybe_request_size", value.maybe_request_size, Subsequent)>>
     ELSE <<>>) \o
    <<Member("has_response", Bool(value.has_response), Subsequent)>> \o
    (IF value.has_response
     THEN <<Member("maybe_response", value.maybe_response, Subsequent),
            Member("maybe_response_size", value.maybe_response_size,
                   Subsequent)>>
     ELSE <<>>)

GenerateParameter(value) ==
    <<Member("type", value.type, First),
      Member("name", value.name, Subsequent),
      Member("offset", value.offset, Subsequent)>>

GenerateStruct(value) ==
    <<Member("name", value.name, First),
      Member("members", value.members, Subsequent),
      Member("size", value.size, Subsequent)>>

(* the default value never written *)
GenerateStructMember_NoDefault(value) ==
    <<Member("type", value.type, First),
      Member("name", value.name, Subsequent),
      Member("offset", value.offset, Subsequent)>>

GenerateStructMember(value) ==
    <<Member("type", value.type, First),
      Member("name", value.name, Subsequent)>> \o
    (IF value.maybe_default_value # nullptr
     THEN <<Member("maybe_default_value", value.maybe_default_value,
                   Subsequent)>>
     ELSE <<>>) \o
    <<Member("offset", value.offset, Subsequent)>>

GenerateUnion(value) ==
    <<Member("name", value.name, First),
      Member("members", value.members, Subsequent),
      Member("size", value.size, Subsequent)>>

GenerateUnionMember(value) ==
    <<Member("type", value.type, First),
      Member("name", value.name, Subsequent),
      Member("offset", value.offset, Subsequent)>>

(* the loop over the enums placed before the loop over the consts *)
DeclarationKinds_EnumsFirst(library) ==
    [i \in 1..Len(library.enum_declarations_) |->
        <<library.enum_declarations_[i].name, "enum">>] \o
    [i \in 1..Len(library.const_declarations_) |->
        <<library.const_declarations_[i].name, "const">>] \o
    [i \in 1..Len(library.interface_declarations_) |->
        <<library.interface_declarations_[i].name, "interface">>] \o
    [i \in 1..Len(library.struct_declarations_) |->
        <<library.struct_declarations_[i].name, "struct">>] \o
    [i \in 1..Len(library.union_declarations_) |->
        <<library.union_declarations_[i].name, "union">>]

(* the five loops of the "declarations" object, count running through them *)
DeclarationKinds(library) ==
    [i \in 1..Len(library.const_declarations_) |->
        <<library.const_declarations_[i].name, "const">>] \o
    [i \in 1..Len(library.enum_declarations_) |->
        <<library.enum_declarations_[i].name, "enum">>] \o
    [i \in 1..Len(library.interface_declarations_) |->
        <<library.interface_declarations_[i].name, "interface">>] \o
    [i \in 1..Len(library.struct_declarations_) |->
        <<library.struct_declarations_[i].name, "struct">>] \o
    [i \in 1..Len(library.union_declarations_) |->
        <<library.union_declarations_[i].name, "union">>]

(* a map that keeps only the last entry of a name *)
RECURSIVE DropOverwritten(_)
DropOverwritten(entries) ==
    IF entries = <<>> THEN <<>>
    ELSE IF \E j \in 2..Len(entries) : entries[j][1] = Head(entries)[1]
         THEN DropOverwritten(Tail(entries))
         ELSE <<Head(entries)>> \o DropOverwritten(Tail(entries))

GenerateDeclarations_Overwriting(value) ==
    LET entries == DropOverwritten(DeclarationKinds(value.library))
    IN [i \in 1..Len(entries) |-> MapEntry(i - 1, entries[i][1], entries[i][2])]

GenerateDeclarations(value) ==
    LET entries == DeclarationKinds(value.library)
    IN [i \in 1..Len(entries) |-> MapEntry(i - 1, entries[i][1], entries[i][2])]

ProduceJSONBody(library) ==
    <<Member("name", library.library_name_, First),
      Member("library_dependencies", Vector(<<>>), Subsequent),
      Member("const_declarations", Vector(library.const_declarations_),
             Subsequent),
      Member("enum_declarations", Vector(library.enum_declarations_),
             Subsequent),
      Member("interface_declarations", Vector(library.interface_declarations_),
             Subsequent),
      Member("struct_declarations", Vector(library.struct_declarations_),
             Subsequent),
      Member("union_declarations", Vector(library.union_declarations_),
             Subsequent),
      Member("declaration_order", Vector(library.declaration_order_),
             Subsequent),
      DeclarationMap(library)>>

ObjectTypes ==
    {"Literal", "Type", "Constant", "Const", "Enum", "Enum::Member",
     "Interface", "Method", "Parameter", "Struct", "Struct::Member", "Union",
     "Union::Member", "declarations", "Library"}

ArrayTypes == {"vector", "CompoundIdentifier"}

Callback(value) ==
    CASE value.t = "Literal" -> GenerateLiteral(value)
      [] value.t = "Type" -> GenerateType(value)
      [] value.t = "Constant" -> GenerateConstant(value)
      [] value.t = "Const" -> GenerateConst(value)
      [] value.t = "Enum" -> GenerateEnum(value)
      [] value.t = "Enum::Member" -> GenerateEnumMember(value)
      [] value.t = "Interface" -> GenerateInterface(value)
      [] value.t = "Method" -> GenerateMethod(value)
      [] value.t = "Parameter" -> GenerateParameter(value)
      [] value.t = "Struct" -> GenerateStruct(value)
      [] value.t = "Struct::Member" -> GenerateStructMember(value)
      [] value.t = "Union" -> GenerateUnion(value)
      [] value.t = "Union::Member" -> GenerateUnionMember(value)
      [] value.t = "declarations" -> GenerateDeclarations(value)
      [] value.t = "Library" -> ProduceJSONBody(value)

(* the overloads that write one token *)
GenerateScalar(file, value) ==
    CASE value.t = "bool" -> EmitBoolean(file, value.value)
      [] value.t = "StringView" -> EmitString(file, value.data)
      [] value.t = "uint64_t" -> EmitUint64(file, value.value)
      [] value.t = "HandleSubtype" ->
            EmitString(file, <<HandleSubtypeName(value.value)>>)
      [] value.t = "Nullability" ->
            (CASE value.value = "Nullable" -> EmitBoolean(file, TRUE)
               [] value.value = "Nonnullable" -> EmitBoolean(file, FALSE))
      [] value.t = "PrimitiveSubtype" ->
            EmitString(file, <<PrimitiveSubtypeName(value.value)>>)
      [] value.t = "Identifier" -> EmitString(file, value.location)
      [] value.t = "Ordinal" -> EmitUint32(file, value.value)
      [] value.t = "Name" -> EmitString(file, LongName(value))

Collection(value) ==
    CASE value.t = "vector" -> value.elements
      [] value.t = "CompoundIdentifier" -> value.components

(* ------------------------------ libraries ----------------------------- *)
A == <<"A">>
B == <<"B">>

LibraryNames == {<<"l", "i", "b">>, <<"a", Quote, Backslash>>}

AB == CompoundIdentifier(<<Identifier(A), Identifier(B)>>)

One == LiteralConstant(NumericLiteral(<<"1">>))

Literals ==
    {StringLiteral(<<Quote, "a", Backslash, Quote, "b", Quote>>),
     StringLiteral(<<Quote, Quote>>),
     StringLiteral(<<Quote, "a", Tab, Quote>>),
     NumericLiteral(<<"1">>),
     NumericLiteral(<<"0", "x", "1", "f">>),
     TrueLiteral, FalseLiteral, DefaultLiteral}

Constants == {LiteralConstant(l) : l \in Literals} \cup {IdentifierConstant(AB)}

PrimitiveSubtypes ==
    {"Int8", "Int16", "Int32", "Int64", "Uint8", "Uint16", "Uint32", "Uint64",
     "Bool", "Status", "Float32", "Float64"}

HandleSubtypes ==
    {"Handle", "Process", "Thread", "Vmo", "Channel", "Event", "Port",
     "Interrupt", "Iomap", "Pci", "Log", "Socket", "Resource", "Eventpair",
     "Job", "Vmar", "Fifo", "Hypervisor", "Guest", "Timer"}

Uint32Type == PrimitiveType("Uint32")

Types ==
    {PrimitiveType(p) : p \in PrimitiveSubtypes} \cup
    {HandleType(h, "Nullable") : h \in HandleSubtypes} \cup
    {HandleType("Channel", "Nonnullable"),
     StringType(nullptr, "Nullable"), StringType(One, "Nonnullable"),
     RequestType(AB, "Nonnullable"), IdentifierType(AB, "Nullable"),
     ArrayType(Uint32Type, One),
     VectorType(Uint32Type, nullptr, "Nullable"),
     VectorType(StringType(nullptr, "Nonnullable"), One, "Nonnullable"),
     VectorType(ArrayType(Uint32Type, IdentifierConstant(AB)), nullptr,
                "Nonnullable")}

Consts ==
    {Const(A, t, One) : t \in Types} \cup
    {Const(A, Uint32Type, c) : c \in Constants}

Enums ==
    {Enum(A, Uint32Type, <<>>),
     Enum(A, Uint32Type, <<EnumMember(<<"x">>, One)>>),
     Enum(A, IdentifierType(AB, "Nonnullable"),
          <<EnumMember(<<"x">>, One), EnumMember(<<"y">>, IdentifierConstant(AB))>>),
     Enum(A, StringType(nullptr, "Nonnullable"), <<>>)}

X == Parameter(Uint32Type, <<"x">>, 0)
Y == Parameter(StringType(nullptr, "Nullable"), <<"y">>, 4)

Methods ==
    {Method(1, <<"m">>, q, <<>>, 0, r, <<>>, 0) : q, r \in BOOLEAN} \cup
    {Method(2, <<"m">>, q, <<X, Y>>, 20, r, <<X>>, 4) : q, r \in BOOLEAN}

Interfaces ==
    {Interface(A, <<>>)} \cup {Interface(A, <<m>>) : m \in Methods} \cup
    {Interface(A, <<Method(1, <<"m">>, TRUE, <<X>>, 4, FALSE, <<>>, 0),
                    Method(2, <<"n">>, FALSE, <<>>, 0, TRUE, <<Y>>, 16)>>)}

Structs ==
    {Struct(A, <<>>, 0),
     Struct(<<"S">>, <<StructMember(Uint32Type, <<"x">>, nullptr, 0)>>, 4),
     Struct(<<"S">>, <<StructMember(Uint32Type, <<"x">>, One, 0)>>, 4),
     Struct(<<"S">>, <<StructMember(Uint32Type, <<"x">>, nullptr, 0),
                       StructMember(StringType(nullptr, "Nullable"), <<"y">>,
                                    LiteralConstant(StringLiteral(<<Quote, "a", Quote>>)),
                                    8)>>, 24)}

Unions ==
    {Union(A, <<>>, 0),
     Union(<<"U">>, <<UnionMember(Uint32Type, <<"x">>, 0)>>, 4),
     Union(<<"U">>, <<UnionMember(Uint32Type, <<"x">>, 0),
                      UnionMember(HandleType("Vmo", "Nullable"), <<"y">>, 0)>>, 4)}

RECURSIVE Reverse(_)
Reverse(s) == IF s = <<>> THEN <<>> ELSE Append(Reverse(Tail(s)), Head(s))

Names(decls) == [i \in 1..Len(decls) |-> decls[i].name]

(* declaration_order_ is any order of the names; the reverse is taken *)
MakeLibrary(library_name, c, e, i, s, u) ==
    Library(library_name, c, e, i, s, u,
            Reverse(Names(c) \o Names(e) \o Names(i) \o Names(s) \o Names(u)))

PlainNames == {A, B}

PlainConst(name) == Const(name, Uint32Type, One)
PlainEnum(name) == Enum(name, Uint32Type, <<>>)
PlainInterface(name) == Interface(name, <<>>)
PlainStruct(name) == Struct(name, <<>>, 0)
PlainUnion(name) == Union(name, <<>>, 0)

NameLists(n) == UNION {[1..k -> PlainNames] : k \in 0..n}

PlainLibraries ==
    {MakeLibrary(<<"l", "i", "b">>,
                 [k \in 1..Len(c) |-> PlainConst(c[k])],
                 [k \in 1..Len(e) |-> PlainEnum(e[k])],
                 [k \in 1..Len(i) |-> PlainInterface(i[k])],
                 [k \in 1..Len(s) |-> PlainStruct(s[k])],
                 [k \in 1..Len(u) |-> PlainUnion(u[k])]) :
        <<c, e, i, s, u>> \in
            {t \in NameLists(MaxDecls) \X NameLists(MaxDecls) \X
                   NameLists(MaxDecls) \X NameLists(MaxDecls) \X
                   NameLists(MaxDecls) :
                Len(t[1]) + Len(t[2]) + Len(t[3]) + Len(t[4]) + Len(t[5])
                    <= MaxDecls}}

EmptyLibraries ==
    {MakeLibrary(n, <<>>, <<>>, <<>>, <<>>, <<>>) : n \in LibraryNames}

RichLibraries ==
    {MakeLibrary(<<"l", "i", "b">>, <<d>>, <<>>, <<>>, <<>>, <<>>) : d \in Consts} \cup
    {MakeLibrary(<<"l", "i", "b">>, <<>>, <<d>>, <<>>, <<>>, <<>>) : d \in Enums} \cup
    {MakeLibrary(<<"l", "i", "b">>, <<>>, <<>>, <<d>>, <<>>, <<>>) : d \in Interfaces} \cup
    {MakeLibrary(<<"l", "i", "b">>, <<>>, <<>>, <<>>, <<d>>, <<>>) : d \in Structs} \cup
    {MakeLibrary(<<"l", "i", "b">>, <<>>, <<>>, <<>>, <<>>, <<d>>) : d \in Unions}

Libraries == EmptyLibraries \cup PlainLibraries \cup RichLibraries

(* ------------------------------ call stack ---------------------------- *)
(* keys and entry_indent_level record what the activation has done; no   *)
(* step reads them.                                                        *)
Call(value) == [f |-> "Generate", value |-> value]

ObjectFrame(value, original_indent_level) ==
    [f |-> "GenerateObject", value |-> value, pc |-> 1,
     original_indent_level |-> original_indent_level, keys |-> <<>>]

ArrayFrame(collection, entry_indent_level) ==
    [f |-> "GenerateArray", collection |-> collection, i |-> 0,
     entry_indent_level |-> entry_indent_level]

top == Head(stack)

Statement == Callback(top.value)[top.pc]

InCallback ==
    /\ stack # <<>>
    /\ top.f = "GenerateObject"
    /\ top.pc <= Len(Callback(top.value))

Advance(frame, key) == [frame EXCEPT !.pc = @ + 1, !.keys = Append(@, key)]

(* a buffer that keeps its bytes when it is moved from *)
MovedFrom_Kept(file) == file

MovedFrom(file) == <<>>

(* ------------------------------- actions ------------------------------ *)
(* the constructor is not in json_generator.cpp: indent_level_ holds any *)
(* value until ProduceJSON sets it at line 532                            *)
Init ==
    /\ library_ \in Libraries
    /\ indent_level_ \in 0..MaxInitIndent
    /\ json_file_ = <<>>
    /\ json_file_out = <<>>
    /\ stack = <<>>
    /\ pc = "idle"

ProduceJSON ==
    /\ pc = "idle"
    /\ Len(json_file_out) < MaxRuns
    /\ indent_level_' = 0
    /\ stack' = <<Call(library_)>>
    /\ pc' = "GenerateObject"
    /\ UNCHANGED <<library_, json_file_, json_file_out>>

GenerateObject ==
    /\ stack # <<>>
    /\ top.f = "Generate"
    /\ top.value.t \in ObjectTypes
    /\ json_file_' = EmitObjectBegin(json_file_)
    /\ stack' = <<ObjectFrame(top.value, indent_level_)>> \o Tail(stack)
    /\ UNCHANGED <<library_, indent_level_, json_file_out, pc>>

GenerateObjectMember ==
    /\ InCallback
    /\ Statement.s = "GenerateObjectMember"
    /\ LET key == Statement.key
           position == Statement.position
       IN /\ indent_level_' =
                IF position = First THEN indent_level_ + 1 ELSE indent_level_
          /\ json_file_' =
                EmitObjectKey(
                    IF position = First
                    THEN EmitNewlineAndIndent(json_file_, indent_level_ + 1)
                    ELSE EmitObjectSeparator(json_file_, indent_level_),
                    indent_level_', <<key>>)
          /\ stack' = <<Call(Statement.value), Advance(top, key)>> \o Tail(stack)
    /\ UNCHANGED <<library_, json_file_out, pc>>

GenerateStringLiteralValue ==
    /\ InCallback
    /\ Statement.s = "EmitLiteral"
    /\ json_file_' =
          EmitLiteral(
              EmitObjectKey(EmitObjectSeparator(json_file_, indent_level_),
                            indent_level_, <<Statement.key>>),
              Statement.value)
    /\ stack' = <<Advance(top, Statement.key)>> \o Tail(stack)
    /\ UNCHANGED <<library_, indent_level_, json_file_out, pc>>

GenerateDeclarationsMember ==
    /\ InCallback
    /\ Statement.s = "declarations"
    /\ json_file_' =
          EmitObjectKey(EmitObjectSeparator(json_file_, indent_level_),
                        indent_level_, <<Statement.key>>)
    /\ stack' = <<Call(Statement.value), Advance(top, Statement.key)>> \o
                Tail(stack)
    /\ UNCHANGED <<library_, indent_level_, json_file_out, pc>>

GenerateDeclarationMapEntry ==
    /\ InCallback
    /\ Statement.s = "GenerateDeclarationMapEntry"
    /\ LET count == Statement.count
           name == Statement.name
           decl == Statement.decl
       IN /\ indent_level_' =
                IF count = 0 THEN indent_level_ + 1 ELSE indent_level_
          /\ json_file_' =
                EmitString(
                    EmitObjectKey(
                        IF count = 0
                        THEN EmitNewlineAndIndent(json_file_, indent_level_ + 1)
                        ELSE EmitObjectSeparator(json_file_, indent_level_),
                        indent_level_', LongName(name)),
                    <<decl>>)
          /\ stack' = <<[top EXCEPT !.pc = @ + 1,
                                    !.keys = Append(@, LongName(name))]>> \o
                      Tail(stack)
    /\ UNCHANGED <<library_, json_file_out, pc>>

(* the closing line written without the test of line 251 *)
GenerateObjectEnd_AlwaysDecrements ==
    /\ stack # <<>>
    /\ top.f = "GenerateObject"
    /\ top.pc > Len(Callback(top.value))
    /\ indent_level_' = indent_level_ - 1
    /\ json_file_' =
          EmitObjectEnd(EmitNewlineAndIndent(json_file_, indent_level_ - 1))
    /\ stack' = Tail(stack)
    /\ UNCHANGED <<library_, json_file_out, pc>>

GenerateObjectEnd ==
    /\ stack # <<>>
    /\ top.f = "GenerateObject"
    /\ top.pc > Len(Callback(top.value))
    /\ indent_level_' =
          IF indent_level_ > top.original_indent_level
          THEN indent_level_ - 1 ELSE indent_level_
    /\ json_file_' =
          EmitObjectEnd(
              IF indent_level_ > top.original_indent_level
              THEN EmitNewlineAndIndent(json_file_, indent_level_ - 1)
              ELSE json_file_)
    /\ stack' = Tail(stack)
    /\ UNCHANGED <<library_, json_file_out, pc>>

(* the opening line written without the test of line 228 *)
GenerateArray_AlwaysIndents ==
    /\ stack # <<>>
    /\ top.f = "Generate"
    /\ top.value.t \in ArrayTypes
    /\ LET collection == Collection(top.value)
       IN /\ indent_level_' = indent_level_ + 1
          /\ json_file_' =
                EmitNewlineAndIndent(EmitArrayBegin(json_file_),
                                     indent_level_ + 1)
          /\ stack' = <<ArrayFrame(collection, indent_level_)>> \o Tail(stack)
    /\ UNCHANGED <<library_, json_file_out, pc>>

GenerateArray ==
    /\ stack # <<>>
    /\ top.f = "Generate"
    /\ top.value.t \in ArrayTypes
    /\ LET collection == Collection(top.value)
       IN /\ indent_level_' =
                IF collection # <<>> THEN indent_level_ + 1 ELSE indent_level_
          /\ json_file_' =
                IF collection # <<>>
                THEN EmitNewlineAndIndent(EmitArrayBegin(json_file_),
                                          indent_level_ + 1)
                ELSE EmitArrayBegin(json_file_)
          /\ stack' = <<ArrayFrame(collection, indent_level_)>> \o Tail(stack)
    /\ UNCHANGED <<library_, json_file_out, pc>>

GenerateArrayElement ==
    /\ stack # <<>>
    /\ top.f = "GenerateArray"
    /\ top.i < Len(top.collection)
    /\ json_file_' =
          IF top.i # 0 THEN EmitArraySeparator(json_file_, indent_level_)
          ELSE json_file_
    /\ stack' = <<Call(top.collection[top.i + 1]), [top EXCEPT !.i = @ + 1]>> \o
                Tail(stack)
    /\ UNCHANGED <<library_, indent_level_, json_file_out, pc>>

GenerateArrayEnd ==
    /\ stack # <<>>
    /\ top.f = "GenerateArray"
    /\ top.i >= Len(top.collection)
    /\ indent_level_' =
          IF top.collection # <<>> THEN indent_level_ - 1 ELSE indent_level_
    /\ json_file_' =
          EmitArrayEnd(
              IF top.collection # <<>>
              THEN EmitNewlineAndIndent(json_file_, indent_level_ - 1)
              ELSE json_file_)
    /\ stack' = Tail(stack)
    /\ UNCHANGED <<library_, json_file_out, pc>>

Generate ==
    /\ stack # <<>>
    /\ top.f = "Generate"
    /\ top.value.t \notin ObjectTypes \cup ArrayTypes
    /\ json_file_' = GenerateScalar(json_file_, top.value)
    /\ stack' = Tail(stack)
    /\ UNCHANGED <<library_, indent_level_, json_file_out, pc>>

GenerateEOF ==
    /\ pc = "GenerateObject"
    /\ stack = <<>>
    /\ json_file_' = EmitNewline(json_file_)
    /\ pc' = "GenerateEOF"
    /\ UNCHANGED <<library_, indent_level_, json_file_out, stack>>

MoveOut ==
    /\ pc = "GenerateEOF"
    /\ json_file_out' = Append(json_file_out, json_file_)
    /\ json_file_' = MovedFrom(json_file_)
    /\ pc' = "idle"
    /\ UNCHANGED <<library_, indent_level_, stack>>

Next ==
    \/ ProduceJSON
    \/ GenerateObject
    \/ GenerateObjectMember
    \/ GenerateStringLiteralValue
    \/ GenerateDeclarationsMember
    \/ GenerateDeclarationMapEntry
    \/ GenerateObjectEnd
    \/ GenerateArray
    \/ GenerateArrayElement
    \/ GenerateArrayEnd
    \/ Generate
    \/ GenerateEOF
    \/ MoveOut

Spec == Init /\ [][Next]_vars

(* ------------------------- reading the state -------------------------- *)
Done == pc = "idle" /\ json_file_out # <<>>

Running == pc = "GenerateObject"

Stepped == stack' # stack

(* the innermost activation is a GenerateObject whose callback returned *)
Returning ==
    /\ stack # <<>>
    /\ top.f = "GenerateObject"
    /\ top.pc > Len(Callback(top.value))

Written == SubSeq(json_file_', Len(json_file_) + 1, Len(json_file_'))

Last(s) == s[Len(s)]

EndsWith(s, e) ==
    /\ Len(e) <= Len(s)
    /\ SubSeq(s, Len(s) - Len(e) + 1, Len(s)) = e

Indent(level) == [i \in 1..level |-> kIndent]

(* ------------------------------- claims ------------------------------- *)

(* C1: every call of GenerateObject and of GenerateArray leaves           *)
(* indent_level_ equal to the value it had on entry, whether or not       *)
(* optional members were skipped and also when the object or array is     *)
(* empty; indent_level_ is 0 when ProduceJSON finishes.                   *)
C1_IndentRestored ==
    [][/\ (stack # <<>> /\ stack' = Tail(stack) /\ top.f = "GenerateObject")
            => indent_level_' = top.original_indent_level
       /\ (stack # <<>> /\ stack' = Tail(stack) /\ top.f = "GenerateArray")
            => indent_level_' = top.entry_indent_level
       /\ (pc' = "idle" /\ pc # "idle") => indent_level_' = 0]_vars

(* a finished run over a library with a skipped optional member, an empty *)
(* array and a non-empty array                                            *)
C1_Witness ==
    /\ Done
    /\ indent_level_ = 0
    /\ Len(library_.struct_declarations_) = 1
    /\ Len(library_.struct_declarations_[1].members.elements) = 1
    /\ library_.struct_declarations_[1].members.elements[1].maybe_default_value
          = nullptr

(* C10: during a serialization indent_level_ is non-negative and equals   *)
(* the number of open objects and arrays that have received a member or   *)
(* an element; every newline written is followed by exactly indent_level_ *)
(* indent units; the final newline is written at level 0 right after the  *)
(* closing brace of the top-level object.                                 *)
C10_Opened(frame) ==
    \/ frame.f = "GenerateObject" /\ frame.keys # <<>>
    \/ frame.f = "GenerateArray" /\ frame.collection # <<>>

RECURSIVE C10_IndentRun(_, _)
C10_IndentRun(s, i) ==
    IF i <= Len(s) /\ s[i] = kIndent THEN 1 + C10_IndentRun(s, i + 1) ELSE 0

C10_IndentTracksNesting ==
    /\ [](Running =>
            /\ indent_level_ >= 0
            /\ indent_level_ =
                  Cardinality({k \in 1..Len(stack) : C10_Opened(stack[k])}))
    /\ [][/\ \A i \in Len(json_file_) + 1..Len(json_file_') :
                json_file_'[i] = Newline
                    => C10_IndentRun(json_file_', i + 1) = indent_level_'
          /\ (pc' = "GenerateEOF" /\ pc # "GenerateEOF")
                => /\ indent_level_ = 0
                   /\ Last(json_file_) = "}"
                   /\ json_file_' = json_file_ \o <<Newline>>]_vars

(* inside a member of a struct that is an element of an array of the     *)
(* top-level object: four containers have content                        *)
C10_Witness ==
    /\ Running
    /\ indent_level_ = 4
    /\ Last(json_file_) = kIndent

(* C2: the text produced by ProduceJSON is syntactically valid JSON.      *)
(* The recogniser reads the elements of the text: kIndent and newline are *)
(* white space, ": " is the colon, a number is one decimal element.       *)
C2_Numbers == {ToString(n) : n \in 0..99}

C2_Escapes == {Quote, Backslash, "/", "b", "f", "n", "r", "t"}

RECURSIVE C2_SkipWs(_, _)
C2_SkipWs(s, i) ==
    IF i <= Len(s) /\ s[i] \in {Newline, kIndent} THEN C2_SkipWs(s, i + 1)
    ELSE i

(* i is the place after the opening quote; the place after the closing    *)
(* quote, or 0 when the string is not a JSON string                       *)
RECURSIVE C2_String(_, _)
C2_String(s, i) ==
    IF i > Len(s) THEN 0
    ELSE CASE s[i] = Quote -> i + 1
           [] s[i] = Backslash ->
                IF i + 1 <= Len(s) /\ s[i + 1] \in C2_Escapes
                THEN C2_String(s, i + 2) ELSE 0
           [] s[i] = Tab -> 0
           [] OTHER -> C2_String(s, i + 1)

RECURSIVE C2_Value(_, _), C2_Members(_, _, _), C2_Elements(_, _, _)
C2_Value(s, i) ==
    LET j == C2_SkipWs(s, i)
    IN IF j > Len(s) THEN 0
       ELSE CASE s[j] = "{" -> C2_Members(s, j + 1, TRUE)
              [] s[j] = "[" -> C2_Elements(s, j + 1, TRUE)
              [] s[j] = Quote -> C2_String(s, j + 1)
              [] s[j] \in {"true", "false", "null"} -> j + 1
              [] s[j] \in C2_Numbers -> j + 1
              [] OTHER -> 0

C2_Members(s, i, first) ==
    LET j == C2_SkipWs(s, i)
    IN IF j > Len(s) THEN 0
       ELSE IF first /\ s[j] = "}" THEN j + 1
       ELSE IF s[j] # Quote THEN 0
       ELSE LET k == C2_String(s, j + 1)
            IN IF k = 0 \/ k > Len(s) THEN 0
               ELSE IF s[k] # ": " THEN 0
               ELSE LET v == C2_Value(s, k + 1)
                        m == C2_SkipWs(s, v)
                    IN IF v = 0 \/ m > Len(s) THEN 0
                       ELSE IF s[m] = "," THEN C2_Members(s, m + 1, FALSE)
                       ELSE IF s[m] = "}" THEN m + 1
                       ELSE 0

C2_Elements(s, i, first) ==
    LET j == C2_SkipWs(s, i)
    IN IF j > Len(s) THEN 0
       ELSE IF first /\ s[j] = "]" THEN j + 1
       ELSE LET v == C2_Value(s, j)
                m == C2_SkipWs(s, v)
            IN IF v = 0 \/ m > Len(s) THEN 0
               ELSE IF s[m] = "," THEN C2_Elements(s, m + 1, FALSE)
               ELSE IF s[m] = "]" THEN m + 1
               ELSE 0

C2_IsJSON(s) ==
    LET e == C2_Value(s, 1)
    IN e # 0 /\ C2_SkipWs(s, e) = Len(s) + 1

C2_ValidJSON ==
    Done => \A r \in 1..Len(json_file_out) : C2_IsJSON(json_file_out[r])

(* the produced text of every library without a tab in a string literal  *)
(* is recognised, which the recogniser has to do to refute anything       *)
C2_HasTab(library) ==
    /\ library.const_declarations_ # <<>>
    /\ library.const_declarations_[1].value.kind = "Literal"
    /\ library.const_declarations_[1].value.literal.kind = "String"
    /\ \E i \in 1..Len(library.const_declarations_[1].value.literal.location) :
          library.const_declarations_[1].value.literal.location[i] = Tab

C2_ValidJSONWithoutTab ==
    (Done /\ ~C2_HasTab(library_))
        => \A r \in 1..Len(json_file_out) : C2_IsJSON(json_file_out[r])

(* the step that writes the "value" member of a String literal *)
C3_WritesStringValue ==
    /\ InCallback
    /\ top.value.t = "Literal"
    /\ top.value.kind = "String"
    /\ top.pc = 2
    /\ Stepped

C3_ValueKey == <<",", Newline>> \o Indent(indent_level_) \o
               <<Quote, "value", Quote, ": ">>

RECURSIVE C3_Escaped(_)
C3_Escaped(text) ==
    IF text = <<>> THEN <<>>
    ELSE (IF Head(text) \in {Quote, Backslash} THEN <<Backslash, Head(text)>>
          ELSE <<Head(text)>>) \o C3_Escaped(Tail(text))

C4_WritesNumericValue ==
    /\ Len(stack) >= 2
    /\ top.f = "Generate"
    /\ stack[2].f = "GenerateObject"
    /\ stack[2].value.t = "Literal"
    /\ stack[2].value.kind = "Numeric"
    /\ stack[2].pc = 3
    /\ Stepped

(* a step that calls EmitLiteral *)
C4_EmitsRaw == InCallback /\ Statement.s = "EmitLiteral" /\ Stepped

(* a step that writes a text of the library: a name, an identifier, a    *)
(* string                                                                 *)
C4_WritesText ==
    /\ stack # <<>>
    /\ top.f = "Generate"
    /\ top.value.t \in {"StringView", "Identifier", "Name"}
    /\ Stepped

C6_Of(decls, kind) == [i \in 1..Len(decls) |-> <<decls[i].name.location, kind>>]

C6_Entries(library) ==
    C6_Of(library.const_declarations_, "const") \o
    C6_Of(library.enum_declarations_, "enum") \o
    C6_Of(library.interface_declarations_, "interface") \o
    C6_Of(library.struct_declarations_, "struct") \o
    C6_Of(library.union_declarations_, "union")

C6_Entry(e) == <<Quote>> \o e[1] \o <<Quote, ": ", Quote, e[2], Quote>>

RECURSIVE C6_EntriesText(_, _)
C6_EntriesText(entries, first) ==
    IF entries = <<>> THEN <<>>
    ELSE (IF first THEN <<>> ELSE <<",">>) \o <<Newline, kIndent, kIndent>> \o
         C6_Entry(Head(entries)) \o C6_EntriesText(Tail(entries), FALSE)

C6_DeclarationsText(entries) ==
    <<Quote, "declarations", Quote, ": ", "{">> \o
    C6_EntriesText(entries, TRUE) \o
    (IF entries # <<>> THEN <<Newline, kIndent>> ELSE <<>>) \o <<"}">>

(* C6: the "declarations" object has one entry per declaration, keyed by *)
(* its name with its kind as the value, in the order all Consts, Enums,   *)
(* Interfaces, Structs, Unions, each group in its collection order, with  *)
(* exactly one separator between consecutive entries.                     *)
C6_DeclarationMapOrder ==
    Done => \A r \in 1..Len(json_file_out) :
                EndsWith(json_file_out[r],
                         C6_DeclarationsText(C6_Entries(library_)) \o
                         <<Newline, "}", Newline>>)

(* one Const A and one Enum B: A: const is written before B: enum *)
C6_Witness ==
    /\ Done
    /\ C6_Entries(library_) = <<<<A, "const">>, <<B, "enum">>>>
    /\ EndsWith(json_file_out[1],
                <<"{", Newline, kIndent, kIndent, Quote, "A", Quote, ": ",
                  Quote, "const", Quote, ",", Newline, kIndent, kIndent,
                  Quote, "B", Quote, ": ", Quote, "enum", Quote,
                  Newline, kIndent, "}", Newline, "}", Newline>>)

(* the places of the text where the entry of a name and a kind is written *)
C5_Places(text, e) ==
    {i \in 1..Len(text) :
        /\ i + Len(C6_Entry(e)) - 1 <= Len(text)
        /\ SubSeq(text, i, i + Len(C6_Entry(e)) - 1) = C6_Entry(e)}

(* two declarations of different kinds with one name, i the earlier *)
C5_Collide(entries, i, j) ==
    /\ i < j
    /\ entries[i][1] = entries[j][1]
    /\ entries[i][2] # entries[j][2]

(* the last declaration of the name *)
C5_Latest(entries, j) ==
    \A k \in 1..Len(entries) : entries[k][1] = entries[j][1] => k <= j

(* C5 as stated: when two declarations of different kinds have the same  *)
(* name, the later one overwrites the earlier one: the declarations       *)
(* object has exactly one entry for the name, with the later kind.        *)
C5_LaterOverwrites ==
    Done => LET entries == C6_Entries(library_)
                text == json_file_out[1]
            IN \A i, j \in 1..Len(entries) :
                  (C5_Collide(entries, i, j) /\ C5_Latest(entries, j))
                      => /\ Cardinality(C5_Places(text, entries[j])) = 1
                         /\ C5_Places(text, entries[i]) = {}

(* C5: when two declarations of different kinds have the same name,      *)
(* nothing is overwritten: the declarations object has an entry for each  *)
(* of the two, the one of the earlier kind written before the one of the  *)
(* later kind.                                                            *)
C5_BothEntriesWritten ==
    Done => LET entries == C6_Entries(library_)
                text == json_file_out[1]
            IN \A i, j \in 1..Len(entries) :
                  C5_Collide(entries, i, j)
                      => /\ C5_Places(text, entries[i]) # {}
                         /\ C5_Places(text, entries[j]) # {}
                         /\ \A a \in C5_Places(text, entries[i]) :
                               \A b \in C5_Places(text, entries[j]) : a < b

(* a Const A and an Enum A: both entries are in the text *)
C5_Witness ==
    /\ Done
    /\ C6_Entries(library_) = <<<<A, "const">>, <<A, "enum">>>>
    /\ C5_Places(json_file_out[1], <<A, "const">>) # {}
    /\ C5_Places(json_file_out[1], <<A, "enum">>) # {}

(* C7: the key of an optional field is written if and only if the field  *)
(* is present, never with the value null, and the other keys keep their   *)
(* order: struct members, vector and string types, enums and methods.     *)
C7_Optional(present, keys) == IF present THEN keys ELSE <<>>

C7_Keys(value) ==
    CASE value.t = "Struct::Member" ->
            <<"type", "name">> \o
            C7_Optional(value.maybe_default_value # nullptr,
                        <<"maybe_default_value">>) \o <<"offset">>
      [] value.t = "Type" /\ value.kind = "Vector" ->
            <<"kind", "element_type">> \o
            C7_Optional(value.maybe_element_count # nullptr,
                        <<"maybe_element_count">>) \o <<"nullable">>
      [] value.t = "Type" /\ value.kind = "String" ->
            <<"kind">> \o
            C7_Optional(value.maybe_element_count # nullptr,
                        <<"maybe_element_count">>) \o <<"nullable">>
      [] value.t = "Enum" ->
            <<"name">> \o C7_Optional(value.type.kind = "Primitive", <<"type">>) \o
            <<"members">>
      [] value.t = "Method" ->
            <<"ordinal", "name", "has_request">> \o
            C7_Optional(value.has_request,
                        <<"maybe_request", "maybe_request_size">>) \o
            <<"has_response">> \o
            C7_Optional(value.has_response,
                        <<"maybe_response", "maybe_response_size">>)
      [] OTHER -> top.keys

C7_OptionalKeys ==
    /\ Returning => top.keys = C7_Keys(top.value)
    /\ \A i \in 1..Len(json_file_) : json_file_[i] # "null"

(* a struct member with a default value has written its four keys *)
C7_Witness ==
    /\ Returning
    /\ top.value.t = "Struct::Member"
    /\ top.value.maybe_default_value # nullptr
    /\ top.keys = <<"type", "name", "maybe_default_value", "offset">>

(* C8: a library without declarations renders the five declaration       *)
(* arrays as [] and declarations as {}, nothing between the brackets, and *)
(* none of them changes the indent level.                                 *)
C8_Empty(library) == C6_Entries(library) = <<>>

C8_Name(library) ==
    CASE library.library_name_.data = <<"l", "i", "b">> ->
            <<Quote, "l", "i", "b", Quote>>
      [] library.library_name_.data = <<"a", Quote, Backslash>> ->
            <<Quote, "a", Backslash, Quote, Backslash, Backslash, Quote>>

C8_Line(key) == <<",", Newline, kIndent, Quote, key, Quote, ": ">>

C8_Text(library) ==
    <<"{", Newline, kIndent, Quote, "name", Quote, ": ">> \o C8_Name(library) \o
    C8_Line("library_dependencies") \o <<"[", "]">> \o
    C8_Line("const_declarations") \o <<"[", "]">> \o
    C8_Line("enum_declarations") \o <<"[", "]">> \o
    C8_Line("interface_declarations") \o <<"[", "]">> \o
    C8_Line("struct_declarations") \o <<"[", "]">> \o
    C8_Line("union_declarations") \o <<"[", "]">> \o
    C8_Line("declaration_order") \o <<"[", "]">> \o
    C8_Line("declarations") \o <<"{", "}">> \o
    <<Newline, "}", Newline>>

(* a step of the rendering of an empty array or of the declarations object *)
C8_InEmptyContainer ==
    /\ stack # <<>>
    /\ \/ top.f = "Generate" /\ top.value.t = "vector"
       \/ top.f = "GenerateArray"
       \/ top.f = "Generate" /\ top.value.t = "declarations"
       \/ top.f = "GenerateObject" /\ top.value.t = "declarations"
    /\ Stepped

C8_EmptyCollections ==
    /\ [](Done /\ C8_Empty(library_)
            => \A r \in 1..Len(json_file_out) :
                  json_file_out[r] = C8_Text(library_))
    /\ [][C8_Empty(library_) /\ C8_InEmptyContainer
            => /\ indent_level_' = indent_level_
               /\ Written \in {<<"[">>, <<"]">>, <<"{">>, <<"}">>}]_vars

C8_Witness ==
    /\ Done
    /\ C8_Empty(library_)
    /\ json_file_out[1] = C8_Text(library_)

====
